---- MODULE Spec2Model ----
(***************************************************************************)
(* Campus Event Hub: the access-control decision procedure (token codec,   *)
(* authentication middleware, role and ownership gates), the user service  *)
(* and the action routes of the server, as state machines.                 *)
(*                                                                         *)
(* The specifications share the variables of this module:                  *)
(*   SpecPolicy      the access decision as a function of its inputs       *)
(*   SpecAuth        users, login, the session token, the clock            *)
(*   SpecMiddleware  the authentication middlewares on every header        *)
(*   SpecServer      the action routes of the server and the stores they   *)
(*                   change                                                *)
(*   SpecOwner       a logged-in client creating and updating events       *)
(*                   through the access-control chain                      *)
(*   SpecUsersRace   concurrent calls of the user service                  *)
(*   SpecEventsRace  concurrent register, feedback and delete requests     *)
(*   FairNotify      registrations, updates and deletions on a server that *)
(*                   goes on handling requests                             *)
(*   SpecViews       the view routes on every header                       *)
(*   SpecEvents      the event service called directly                     *)
(*   SpecReadRace    a read of an event concurrent with its update or      *)
(*                   deletion                                              *)
(*   SpecFaults      requests with a database call that fails              *)
(*   SpecCache       the in-memory cache, its timeouts and the clock       *)
(*   SpecReminder    the daily reminder job                                *)
(* A specification leaves the variables of the others at their initial     *)
(* values.                                                                 *)
(***************************************************************************)
EXTENDS Integers, Sequences, FiniteSets, TLC

VARIABLES
    \* -- access decision (SpecPolicy)
    requester,       \* req.user as the authentication step left it
    requiredRoles,   \* the roles array given to requireRole
    ownership,       \* the event whose owner the handler checks, or NoOwnership
    decision,        \* the response of the chain, or NoDecision before it ran
    \* -- users and tokens (SpecAuth)
    users,           \* the users collection
    nextId,          \* the next ObjectId the users collection hands out
    now,             \* the clock, in ticks
    session,         \* the result {token, user} of the client's last login, or NoSession
    authHeader,      \* the Authorization header of the request being authenticated
    authOut,         \* what the authentication middleware made of that request
    \* -- the server's stores (SpecServer)
    events,          \* the events collection
    nextOid,         \* the next ObjectId the database hands out to an inserted document
    registrations,   \* the registrations collection
    feedback,        \* the feedback collection
    sent,            \* the emails handed to the email service
    cache,           \* the in-memory cache: key -> value
    lastReq,         \* the last request an action route handled, and its answer
    \* -- calls in flight (SpecUsersRace, SpecEventsRace)
    calls,           \* for each concurrent caller: the call it is in and how far it got
    \* -- the in-memory cache (SpecCache)
    timers,          \* InMemoryCache.timers: key -> the timeout set for it
    timeouts,        \* the timeouts that are scheduled and not cleared
    isConnected      \* CacheManager.isConnected

polVars  == <<requester, requiredRoles, ownership, decision>>
authVars == <<users, nextId, now, session, authHeader, authOut>>
srvVars  == <<events, nextOid, registrations, feedback, sent, cache, lastReq>>
runVars  == <<calls>>
cacheVars == <<timers, timeouts, isConnected>>
vars     == <<polVars, authVars, srvVars, runVars, cacheVars>>

-----------------------------------------------------------------------------
(* Values *)

Roles    == {"student", "organizer", "admin"}
AllRoles == Roles \cup {"guest"}
Emails   == {"a@x.com", "b@x.com"}

\* JavaScript's undefined, where a string is expected
Undefined == "undefined"

\* obj.field of a JavaScript object: undefined when the object has no such field
Get(obj, field) == IF field \in DOMAIN obj THEN obj[field] ELSE Undefined

\* req.user = null
NullUser   == [null |-> TRUE]
\* req.user = { role: 'guest' }
GuestUser  == [role |-> "guest"]

NoOwnership == [none |-> TRUE]
NoDecision  == [none |-> TRUE]
NoSession   == [none |-> TRUE]
NoHeader    == [none |-> TRUE]

\* what a service call returns, or the AppError(message, statusCode) it throws
NoValue == [none |-> TRUE]
Ok(value)       == [ok |-> TRUE, value |-> value, statusCode |-> "none", message |-> "none"]
AppError(m, c)  == [ok |-> FALSE, value |-> NoValue, statusCode |-> c, message |-> m]

\* next(): the middleware passes the request on, with req.user as it left it
Pass(user) == [next |-> TRUE, status |-> "none", kind |-> "none", user |-> user]
\* res.status(s): the middleware answers the request itself
Respond(s, k, user) == [next |-> FALSE, status |-> s, kind |-> k, user |-> user]

-----------------------------------------------------------------------------
(* The role gate and the ownership gate *)

\* requireRole with the guest gate left out: a guest falls through to the role gate
requireRole_noGuestGate(roles, user) ==
    LET u == IF user = NullUser THEN GuestUser ELSE user IN
    IF Get(u, "role") \notin roles
    THEN Respond("403", "InsufficientRole", u)
    ELSE Pass(u)

\* requireRole with role inheritance: admin passes every role gate
requireRole_adminInherits(roles, user) ==
    LET u == IF user = NullUser THEN GuestUser ELSE user IN
    IF Get(u, "role") = "guest"
    THEN IF "guest" \notin roles
         THEN Respond("401", "AuthenticationRequired", u)
         ELSE Pass(u)
    ELSE IF Get(u, "role") \notin roles /\ Get(u, "role") # "admin"
         THEN Respond("403", "InsufficientRole", u)
         ELSE Pass(u)

requireRole(roles, user) ==
    LET u == IF user = NullUser THEN GuestUser ELSE user IN
    IF Get(u, "role") = "guest"
    THEN IF "guest" \notin roles
         THEN Respond("401", "AuthenticationRequired", u)
         ELSE Pass(u)
    ELSE IF Get(u, "role") \notin roles
         THEN Respond("403", "InsufficientRole", u)
         ELSE Pass(u)

\* the roles the ownership check lets through whatever the owner is
bypassRoles == {"admin"}

\* the ownership check without the admin bypass
ownershipCheck_noBypass(user, event) ==
    IF event.organizer # Get(user, "email")
    THEN Respond("403", "OwnershipViolation", user)
    ELSE Pass(user)

\* the ownership check that lets every organizer through
ownershipCheck_anyOrganizer(user, event) ==
    IF Get(user, "role") \notin (bypassRoles \cup {"organizer"})
       /\ event.organizer # Get(user, "email")
    THEN Respond("403", "OwnershipViolation", user)
    ELSE Pass(user)

\* the ownership check that resolves the owner by identity: it also lets through
\* the user whose id the creation of the event was recorded with
ownershipCheck_byIdentity(user, event) ==
    IF /\ Get(user, "role") \notin bypassRoles
       /\ event.organizer # Get(user, "email")
       /\ ~(/\ "created" \in DOMAIN lastReq
            /\ "_id" \in DOMAIN event
            /\ lastReq.created = event._id
            /\ Get(lastReq.who, "id") = Get(user, "id"))
    THEN Respond("403", "OwnershipViolation", user)
    ELSE Pass(user)

ownershipCheck(user, event) ==
    IF Get(user, "role") \notin bypassRoles /\ event.organizer # Get(user, "email")
    THEN Respond("403", "OwnershipViolation", user)
    ELSE Pass(user)

\* the chain of an action route: requireRole(roles), then, in the handler of an
\* edit or delete route, the ownership check on the event it loaded
evaluate(user, roles, own) ==
    LET r == requireRole(roles, user) IN
    IF ~r.next THEN r
    ELSE IF own = NoOwnership THEN r
    ELSE ownershipCheck(r.user, own)

Allowed(d) == d # NoDecision /\ d.next
Denied(d)  == d # NoDecision /\ ~d.next

-----------------------------------------------------------------------------
(* SpecPolicy: the decision, over every requester, role list and owner *)

\* req.user after authentication: null or {role: guest} without a valid token,
\* the decoded email and role with one
Requesters ==
    {NullUser, GuestUser} \cup [email : Emails, role : Roles]

\* The routes: any list of roles; an ownership check only in the handlers of
\* action routes, whose roles never list guest.
RouteConfigs ==
    {<<rs, NoOwnership>> : rs \in SUBSET AllRoles}
    \cup {<<rs, [organizer |-> e]>> : rs \in SUBSET Roles, e \in Emails}

AuthInit ==
    /\ users = {}
    /\ nextId = 1
    /\ now = 0
    /\ session = NoSession
    /\ authHeader = NoHeader
    /\ authOut = NoDecision

\* the concurrent callers, none of them in a call
Procs == {1, 2}
Idle  == [op |-> "none", pc |-> "idle"]
RunInit == calls = [p \in Procs |-> Idle]

\* new CacheManager(): an empty InMemoryCache, connected
CacheInit ==
    /\ timers = <<>>
    /\ timeouts = {}
    /\ isConnected = TRUE

SrvInit ==
    /\ events = {}
    /\ nextOid = 1
    /\ registrations = {}
    /\ feedback = {}
    /\ sent = {}
    /\ cache = <<>>
    /\ lastReq = NoDecision

PolicyInit ==
    /\ requester \in Requesters
    /\ \E rc \in RouteConfigs : requiredRoles = rc[1] /\ ownership = rc[2]
    /\ decision = NoDecision
    /\ AuthInit
    /\ SrvInit
    /\ RunInit
    /\ CacheInit

Evaluate ==
    /\ decision = NoDecision
    /\ decision' = evaluate(requester, requiredRoles, ownership)
    /\ UNCHANGED <<requester, requiredRoles, ownership, authVars, srvVars, runVars, cacheVars>>

PolicyNext == Evaluate

SpecPolicy == PolicyInit /\ [][PolicyNext]_vars

IsGuest(user) == user = NullUser \/ Get(user, "role") = "guest"

-----------------------------------------------------------------------------
(* The access decision: claims C1 to C4, checked under SpecPolicy *)

\* C1: for a guest requester (no valid token: req.user null or {role: guest}) the
\* decision is ALLOW if and only if guest is one of the required roles; otherwise
\* it is the 401 AuthenticationRequired, never a 403.
C1_GuestRule ==
    (decision # NoDecision /\ IsGuest(requester)) =>
        /\ Allowed(decision) <=> ("guest" \in requiredRoles)
        /\ Denied(decision) =>
              decision.status = "401" /\ decision.kind = "AuthenticationRequired"

\* a guest has been turned away from a route that does not list guest
C1_Witness ==
    /\ IsGuest(requester)
    /\ "guest" \notin requiredRoles
    /\ Denied(decision)

\* C2: a requester who is not a guest and whose role is not among the required
\* roles gets the 403 InsufficientRole, with or without an ownership check and
\* whoever owns the event: also an admin where admin is not listed, also the owner.
C2_InsufficientRole ==
    (decision # NoDecision /\ ~IsGuest(requester)
        /\ requester.role \notin requiredRoles) =>
        /\ Denied(decision)
        /\ decision.status = "403"
        /\ decision.kind = "InsufficientRole"

\* an admin who owns the event has been turned away from a route with an
\* ownership check whose roles do not list admin
C2_Witness ==
    /\ ~IsGuest(requester)
    /\ requester.role = "admin"
    /\ "admin" \notin requiredRoles
    /\ ownership # NoOwnership
    /\ ownership.organizer = requester.email
    /\ Denied(decision)

\* C3: on a route with an ownership check, a requester whose role is required
\* but is no bypass role is let through if and only if their email is the
\* event's organizer; otherwise the answer is the 403 OwnershipViolation.
C3_OwnershipGate ==
    (decision # NoDecision /\ ownership # NoOwnership /\ ~IsGuest(requester)
        /\ requester.role \in requiredRoles
        /\ requester.role \notin bypassRoles) =>
        /\ Allowed(decision) <=> (requester.email = ownership.organizer)
        /\ Denied(decision) =>
              decision.status = "403" /\ decision.kind = "OwnershipViolation"

\* an organizer with the required role has been refused another organizer's event
C3_Witness ==
    /\ ~IsGuest(requester)
    /\ requester.role = "organizer"
    /\ "organizer" \in requiredRoles
    /\ ownership # NoOwnership
    /\ ownership.organizer # requester.email
    /\ Denied(decision)

\* C4: an admin on a route that lists admin and checks ownership with the admin
\* bypass is let through whoever the event's organizer is.
C4_AdminBypass ==
    (decision # NoDecision /\ ownership # NoOwnership /\ ~IsGuest(requester)
        /\ requester.role = "admin" /\ "admin" \in requiredRoles) =>
        Allowed(decision)

\* an admin has been let through to an event another user organizes
C4_Witness ==
    /\ ~IsGuest(requester)
    /\ requester.role = "admin"
    /\ "admin" \in requiredRoles
    /\ ownership # NoOwnership
    /\ ownership.organizer # requester.email
    /\ Allowed(decision)

-----------------------------------------------------------------------------
(* The token codec: jsonwebtoken as userService calls it *)

\* the clock counts TicksPerDay ticks a day, up to MaxNow
TicksPerDay == 2
MaxNow      == 3
\* expiresIn: '24h'
ExpiresInDays == 1
ExpiresIn == ExpiresInDays * TicksPerDay

JWT_SECRET == "campus_event_hub_secret_key"

\* an ObjectId, and what JSON.stringify makes of it (its hex string)
ObjectId(n)   == [oid |-> n]
toJSON(id)    == [hex |-> id.oid]
\* ObjectId.isValid(s) and new ObjectId(s), for a hex string or any other string
isValid(s)    == "hex" \in DOMAIN s
fromHex(s)    == [oid |-> s.hex]

\* jwt.sign(payload, secret, {expiresIn}): the payload with iat and exp, signed
jwt_sign(payload, secret, clock) ==
    [payload |-> [id    |-> payload.id,
                  email |-> payload.email,
                  role  |-> payload.role,
                  iat   |-> clock,
                  exp   |-> clock + ExpiresIn],
     sig     |-> secret]

\* a string that is no JWT at all
Garbage == [garbage |-> TRUE]
\* the token of a request that carries none
NoToken == [absent |-> TRUE]

JwtOk(decoded)    == [ok |-> TRUE, decoded |-> decoded, name |-> "none", message |-> "none", statusCode |-> "none"]
JwtError(n, m, c) == [ok |-> FALSE, decoded |-> NullUser, name |-> n, message |-> m, statusCode |-> c]

\* jwt.verify(token, secret): the decoded payload, or the error it throws
jwt_verify(token, secret, clock) ==
    IF "payload" \notin DOMAIN token
    THEN JwtError("JsonWebTokenError", "jwt malformed", "none")
    ELSE IF token.sig # secret
    THEN JwtError("JsonWebTokenError", "invalid signature", "none")
    ELSE IF clock >= token.payload.exp
    THEN JwtError("TokenExpiredError", "jwt expired", "none")
    ELSE JwtOk(token.payload)

\* verifyToken that lets the error of jwt.verify through
verifyToken_rethrow(token, clock) ==
    jwt_verify(token, JWT_SECRET, clock)

\* verifyToken that decodes without verifying (jwt.decode)
verifyToken_decodeOnly(token, clock) ==
    IF "payload" \notin DOMAIN token
    THEN JwtError("AppError", "Invalid or expired token", "401")
    ELSE JwtOk(token.payload)

\* verifyToken that also looks the identity up: the token stands only while a
\* stored user has its id, email and role
verifyToken_checkUser(token, clock) ==
    LET r == jwt_verify(token, JWT_SECRET, clock) IN
    IF r.ok /\ \E u \in users : /\ toJSON(u._id) = r.decoded.id
                               /\ u.email = r.decoded.email
                               /\ u.role = r.decoded.role
    THEN r
    ELSE JwtError("AppError", "Invalid or expired token", "401")

verifyToken(token, clock) ==
    LET r == jwt_verify(token, JWT_SECRET, clock) IN
    IF r.ok THEN r
    ELSE JwtError("AppError", "Invalid or expired token", "401")

\* why jwt.verify refuses a token, or that it does not
Cause(token, clock) ==
    IF token = NoToken THEN "absent"
    ELSE LET r == jwt_verify(token, JWT_SECRET, clock) IN
         IF r.ok THEN "valid"
         ELSE IF r.message = "jwt malformed" THEN "malformed"
         ELSE IF r.message = "invalid signature" THEN "signature"
         ELSE "expired"

DecodeFailures == {"malformed", "signature", "expired"}

-----------------------------------------------------------------------------
(* The authentication middlewares *)

\* the Authorization header: none, a scheme with nothing after it, or
\* 'Bearer <token>'
SchemeOnly     == [scheme |-> "Bearer"]
Bearer(token)  == [scheme |-> "Bearer", token |-> token]

\* authHeader && authHeader.split(' ')[1]
TokenOf(header) == IF "token" \in DOMAIN header THEN header.token ELSE NoToken

\* middleware/auth: isAuthenticated
isAuthenticated(header, clock) ==
    LET token == TokenOf(header) IN
    IF token # NoToken
    THEN LET v == verifyToken(token, clock) IN
         IF v.ok THEN Pass(v.decoded) ELSE Pass(GuestUser)
    ELSE Pass(GuestUser)

\* routes/authRoutes: authenticateToken
authenticateToken(header, clock) ==
    LET token == TokenOf(header) IN
    IF token = NoToken
    THEN Respond("401", "Access token required", NullUser)
    ELSE LET v == verifyToken(token, clock) IN
         IF v.ok THEN Pass(v.decoded)
         ELSE Respond("403", "Invalid or expired token", NullUser)

\* the authenticateToken of the access-control chain (authenticateToken,
\* requireRole(roles)): req.user = null without a valid token
authenticateTokenRBAC(header, clock) ==
    LET token == TokenOf(header) IN
    IF token = NoToken
    THEN Pass(NullUser)
    ELSE LET v == verifyToken(token, clock) IN
         IF v.ok THEN Pass(v.decoded) ELSE Pass(NullUser)

Middlewares == {"isAuthenticated", "authenticateToken", "authenticateTokenRBAC"}

RunMiddleware(mw, header, clock) ==
    CASE mw = "isAuthenticated"       -> isAuthenticated(header, clock)
      [] mw = "authenticateToken"     -> authenticateToken(header, clock)
      [] mw = "authenticateTokenRBAC" -> authenticateTokenRBAC(header, clock)

-----------------------------------------------------------------------------
(* The user service *)

\* at most MaxUsers users are ever inserted
MaxUsers == 2

Null == "null"

Passwords  == {"pw1", "pw2"}
StudentIds == {"S1"}

\* bcrypt.hash(password, SALT_ROUNDS) and bcrypt.compare(password, hash)
bcrypt_hash(password)          == [bcrypt |-> password]
bcrypt_compare(password, hash) == hash = [bcrypt |-> password]

\* the destructuring that keeps the password in the rest
userWithoutPassword_keep(user) == user

\* const { password, ...userWithoutPassword } = user
userWithoutPassword(user) == [f \in (DOMAIN user) \ {"password"} |-> user[f]]

\* { $set: data } on a document
Set(doc, data) ==
    [f \in (DOMAIN doc) \cup (DOMAIN data) |->
        IF f \in DOMAIN data THEN data[f] ELSE doc[f]]

\* usersCollection.findOne({ email })
HasEmail(email)   == \E u \in users : u.email = email
findByEmail(email) == CHOOSE u \in users : u.email = email

\* the ids a caller may pass: the hex string of an ObjectId, or some other string
UserIds == {toJSON(ObjectId(n)) : n \in 1..MaxUsers} \cup {[bad |-> TRUE]}

\* register(userData); createdAt and updatedAt, which nothing reads, are left out
register ==
    \E email \in Emails, password \in {"pw1"},
       role \in Roles \cup {Undefined}, studentId \in StudentIds :
        LET userData == [name |-> "name", email |-> email, password |-> password,
                         role |-> role, studentId |-> studentId]
            user == [_id       |-> ObjectId(nextId),
                     name      |-> userData.name,
                     email     |-> userData.email,
                     password  |-> bcrypt_hash(userData.password),
                     role      |-> IF userData.role # Undefined
                                   THEN userData.role ELSE "student",
                     studentId |-> IF userData.role = "student"
                                   THEN userData.studentId ELSE Null]
        IN
        /\ nextId <= MaxUsers
        /\ IF HasEmail(userData.email)
           THEN UNCHANGED <<users, nextId>>      \* 409
           ELSE /\ users' = users \cup {user}
                /\ nextId' = nextId + 1
        /\ UNCHANGED <<now, session, authHeader, authOut, polVars, srvVars, runVars, cacheVars>>

\* the token login signs for a user, with the role left out of the payload
loginToken_noRole(user, clock) ==
    [payload |-> [id    |-> toJSON(user._id),
                  email |-> user.email,
                  iat   |-> clock,
                  exp   |-> clock + ExpiresIn],
     sig     |-> JWT_SECRET]

\* the token login signs for a user
loginToken(user, clock) ==
    jwt_sign([id |-> toJSON(user._id), email |-> user.email, role |-> user.role],
             JWT_SECRET, clock)

\* login that tells an unknown email from a wrong password
loginOutcome_userNotFound(email, password, clock) ==
    IF ~HasEmail(email)
    THEN AppError("User not found", "404")
    ELSE LET user == findByEmail(email) IN
         IF ~bcrypt_compare(password, user.password)
         THEN AppError("Invalid credentials", "401")
         ELSE Ok([token |-> loginToken(user, clock),
                  user  |-> userWithoutPassword(user)])

\* login(email, password): {token, user}, or the error it throws
loginOutcome(email, password, clock) ==
    IF ~HasEmail(email)
    THEN AppError("Invalid credentials", "401")
    ELSE LET user == findByEmail(email) IN
         IF ~bcrypt_compare(password, user.password)
         THEN AppError("Invalid credentials", "401")
         ELSE Ok([token |-> loginToken(user, clock),
                  user  |-> userWithoutPassword(user)])

\* login(email, password): the client keeps the result {token, user} in place of
\* the one it had
login ==
    \E email \in Emails, password \in Passwords :
        /\ LET out == loginOutcome(email, password, now) IN
           IF ~out.ok
           THEN UNCHANGED <<session, authHeader, authOut>>          \* 401
           ELSE /\ session' = out.value
                \* a new session: no request has been sent with it yet
                /\ authHeader' = NoHeader
                /\ authOut' = NoDecision
        /\ UNCHANGED <<users, nextId, now, polVars, srvVars, runVars, cacheVars>>

\* updateUser(userId, userData): a new email, a new role, or a password (dropped)
UserUpdates ==
    {[email |-> e] : e \in Emails} \cup {[role |-> r] : r \in Roles}
    \cup {[password |-> "pw2"]}

updateUser ==
    \E userId \in UserIds, userData \in UserUpdates :
        LET updateData == [f \in (DOMAIN userData) \ {"password"} |-> userData[f]]
            matched    == IF isValid(userId)
                          THEN {u \in users : u._id = fromHex(userId)} ELSE {}
        IN
        /\ IF \/ ~isValid(userId)                                 \* 400
              \/ matched = {}                                     \* 404
              \/ \E u \in matched, o \in users \ matched :        \* unique index
                     "email" \in DOMAIN updateData /\ o.email = updateData.email
           THEN UNCHANGED users
           ELSE users' = (users \ matched) \cup {Set(u, updateData) : u \in matched}
        /\ UNCHANGED <<nextId, now, session, authHeader, authOut, polVars, srvVars, runVars, cacheVars>>

\* deleteUser(userId)
deleteUser ==
    \E userId \in UserIds :
        /\ IF ~isValid(userId)
           THEN UNCHANGED users                                   \* 400
           ELSE users' = {u \in users : u._id # fromHex(userId)}  \* 404 if none
        /\ UNCHANGED <<nextId, now, session, authHeader, authOut, polVars, srvVars, runVars, cacheVars>>

-----------------------------------------------------------------------------------------------------------------------------------------------------
(* SpecAuth: users, logins, the clock, and the client's requests, which go
   through isAuthenticated with the token of its session *)

Tick ==
    /\ now < MaxNow
    /\ now' = now + 1
    /\ UNCHANGED <<users, nextId, session, authHeader, authOut, polVars, srvVars, runVars, cacheVars>>

\* what an authentication middleware made of a request
AuthOutcome(mw, hdr, clock) ==
    [mw     |-> mw,
     at     |-> clock,
     cause  |-> Cause(TokenOf(hdr), clock),
     verify |-> IF TokenOf(hdr) = NoToken THEN NoDecision
                ELSE verifyToken(TokenOf(hdr), clock),
     result |-> RunMiddleware(mw, hdr, clock)]

\* the client sends a request with the token of its session
Present ==
    /\ session # NoSession
    /\ authHeader' = Bearer(session.token)
    /\ authOut' = AuthOutcome("isAuthenticated", authHeader', now)
    /\ UNCHANGED <<users, nextId, now, session, polVars, srvVars, runVars, cacheVars>>

AuthSpecInit ==
    /\ requester = GuestUser
    /\ requiredRoles = {}
    /\ ownership = NoOwnership
    /\ decision = NoDecision
    /\ AuthInit
    /\ SrvInit
    /\ RunInit
    /\ CacheInit

AuthNext ==
    \/ register
    \/ login
    \/ updateUser
    \/ deleteUser
    \/ Tick
    \/ Present

SpecAuth == AuthSpecInit /\ [][AuthNext]_vars

-----------------------------------------------------------------------------
(* SpecMiddleware: each authentication middleware, over every Authorization
   header and every time of the clock *)

SigningKeys == {JWT_SECRET, "attacker_key"}

\* the tokens a request may carry: no JWT at all, or a JWT signed at some time
\* with the server's key or with another
Tokens ==
    {Garbage} \cup
    {jwt_sign([id |-> toJSON(ObjectId(n)), email |-> e, role |-> r], k, t) :
        n \in 1..MaxUsers, e \in Emails, r \in Roles, k \in SigningKeys,
        t \in 0..MaxNow}

Headers == {NoHeader, SchemeOnly} \cup {Bearer(t) : t \in Tokens}

MiddlewareInit ==
    /\ requester = GuestUser
    /\ requiredRoles = {}
    /\ ownership = NoOwnership
    /\ decision = NoDecision
    /\ users = {}
    /\ nextId = 1
    /\ now \in 0..MaxNow
    /\ session = NoSession
    /\ authHeader \in Headers
    /\ authOut = NoDecision
    /\ SrvInit
    /\ RunInit
    /\ CacheInit

\* the request goes through one of the authentication middlewares
Authenticate ==
    /\ authOut = NoDecision
    /\ \E mw \in Middlewares : authOut' = AuthOutcome(mw, authHeader, now)
    /\ UNCHANGED <<users, nextId, now, session, authHeader, polVars, srvVars, runVars, cacheVars>>

MiddlewareNext == Authenticate

SpecMiddleware == MiddlewareInit /\ [][MiddlewareNext]_vars

-----------------------------------------------------------------------------
(* Authentication: claims C5 and C8, checked under SpecMiddleware *)

\* the error verifyToken throws
InvalidOrExpired == JwtError("AppError", "Invalid or expired token", "401")

\* C5: authentication never answers a request itself: without a token, or with one
\* that does not verify, the request goes on as a guest; with a valid token it goes
\* on with the decoded payload.
C5_NeverRejects ==
    authOut # NoDecision =>
        /\ authOut.result.next
        /\ authOut.cause = "valid" =>
              authOut.result.user = TokenOf(authHeader).payload
        /\ authOut.cause # "valid" => IsGuest(authOut.result.user)

\* C8: a malformed token, a token with a bad signature and an expired token all
\* end the same way: verifyToken throws the one 'Invalid or expired token' error,
\* and the middleware does with the request what it does with every other token
\* that fails; isAuthenticated passes it on as {role: guest}.
C8_SameFailure ==
    (authOut # NoDecision /\ authOut.cause \in DecodeFailures) =>
        /\ authOut.verify = InvalidOrExpired
        /\ authOut.mw = "isAuthenticated" => authOut.result = Pass(GuestUser)
        /\ \A h \in Headers, t \in 0..MaxNow :
              Cause(TokenOf(h), t) \in DecodeFailures =>
                  /\ verifyToken(TokenOf(h), t) = authOut.verify
                  /\ RunMiddleware(authOut.mw, h, t) = authOut.result

\* isAuthenticated has handled an expired token, at a time when some request
\* may carry a malformed one and another a token with a bad signature
C8_Witness ==
    /\ authOut # NoDecision
    /\ authOut.mw = "isAuthenticated"
    /\ authOut.cause = "expired"
    /\ \E h1, h2 \in Headers :
          /\ Cause(TokenOf(h1), now) = "malformed"
          /\ Cause(TokenOf(h2), now) = "signature"

-----------------------------------------------------------------------------
(* Expiry and the round trip: claims C9 and C10, checked under SpecAuth *)

\* the time the token of the session was issued, and the time it expires
IssuedAt  == session.token.payload.iat
ExpiresAt == IssuedAt + ExpiresIn

\* the guest rule, for every list of roles
DecidedAsGuest(user) ==
    \A rs \in SUBSET AllRoles :
        LET d == evaluate(user, rs, NoOwnership) IN
        /\ Allowed(d) <=> "guest" \in rs
        /\ Denied(d) => d.status = "401" /\ d.kind = "AuthenticationRequired"

\* C9: a token presented 24 hours or more after login issued it is not accepted:
\* verification fails, the requester is {role: guest}, and the request is decided
\* by the guest rule.
C9_ExpiredIsGuest ==
    (session # NoSession /\ authOut # NoDecision /\ authOut.at >= ExpiresAt) =>
        /\ ~authOut.verify.ok
        /\ authOut.result = Pass(GuestUser)
        /\ DecidedAsGuest(authOut.result.user)

\* the token has been presented exactly 24 hours after it was issued
C9_Witness ==
    /\ session # NoSession
    /\ authOut # NoDecision
    /\ authOut.at = ExpiresAt
    /\ authOut.result.user = GuestUser

\* C10: a token issued by login and verified before it expires yields the id (as
\* JSON carries it), the email and the role the user had when login read it.
C10_RoundTrip ==
    (session # NoSession /\ authOut # NoDecision /\ authOut.at < ExpiresAt) =>
        /\ authOut.verify.ok
        /\ Get(authOut.verify.decoded, "id") = toJSON(session.user._id)
        /\ fromHex(Get(authOut.verify.decoded, "id")) = session.user._id
        /\ Get(authOut.verify.decoded, "email") = session.user.email
        /\ Get(authOut.verify.decoded, "role") = session.user.role
        /\ authOut.result = Pass(authOut.verify.decoded)

\* the token has been verified in the last tick before it expires, after the
\* user's role was changed
C10_Witness ==
    /\ session # NoSession
    /\ authOut # NoDecision
    /\ authOut.at = ExpiresAt - 1
    /\ authOut.verify.ok
    /\ \E u \in users : u._id = session.user._id /\ u.role # session.user.role

-----------------------------------------------------------------------------
(* The event service and the cache *)

\* at most MaxDocs documents are ever inserted into events, registrations and
\* feedback together
MaxDocs == 2

\* event dates are days 0..Today; the server's clock is at day Today
Today == 1
Dates == 0..Today

Titles == {"t1", "t2"}

\* the ids a request may name: the hex string of an ObjectId, or another string
EventIds == {toJSON(ObjectId(n)) : n \in 1..MaxDocs} \cup {[bad |-> TRUE]}

\* cache.get(key): null when the key is not set
cacheGet(c, key) == IF key \in DOMAIN c THEN c[key] ELSE NoValue
\* cache.set(key, value, 3600)
cacheSet(c, key, value) ==
    [k \in (DOMAIN c) \cup {key} |-> IF k = key THEN value ELSE c[k]]
\* cache.flush()
cacheFlush == <<>>

eventKey(eventId) == [event |-> eventId]

\* getEventById(eventId) on the events collection evs and the cache c: what it
\* returns or throws, and the cache it leaves
getEventById(evs, c, eventId) ==
    IF ~isValid(eventId)
    THEN [out |-> AppError("Invalid event ID", "400"), cache |-> c]
    ELSE IF cacheGet(c, eventKey(eventId)) # NoValue
    THEN [out |-> Ok(cacheGet(c, eventKey(eventId))), cache |-> c]
    ELSE LET found == {e \in evs : e._id = fromHex(eventId)} IN
         IF found = {}
         THEN [out |-> AppError("Event not found", "404"), cache |-> c]
         ELSE LET event == CHOOSE e \in found : TRUE IN
              [out |-> Ok(event), cache |-> cacheSet(c, eventKey(eventId), event)]

-----------------------------------------------------------------------------
(* The action routes of the server *)

\* the roles the route permissions matrix requires for each action route
RouteRoles ==
    [register         |-> {"student"},
     feedback         |-> {"student"},
     createEvent      |-> {"organizer", "admin"},
     updateEvent      |-> {"organizer", "admin"},
     deleteEvent      |-> {"organizer", "admin"},
     exportRegistrations |-> {"student"}]

\* who sends a request, as authentication would leave req.user
ServerRequesters ==
    {GuestUser,
     [email |-> "a@x.com", role |-> "student"],
     [email |-> "a@x.com", role |-> "organizer"],
     [email |-> "b@x.com", role |-> "organizer"],
     [email |-> "b@x.com", role |-> "admin"]}

\* the event an edit or delete route checks the owner of
OwnershipOf(eventId) ==
    IF isValid(eventId) /\ \E e \in events : e._id = fromHex(eventId)
    THEN [organizer |-> (CHOOSE e \in events : e._id = fromHex(eventId)).organizer]
    ELSE NoOwnership

\* the request the route handled, the decision the access-control chain takes on
\* it, and the status the route answered with
Handled(route, who, own, status) ==
    [route    |-> route,
     who      |-> who,
     decision |-> evaluate(who, RouteRoles[route], own),
     status   |-> status]

\* the same for a request on an event, with the event it names and the students
\* registered for that event when the request arrived
HandledEvent(route, who, own, status, eventId) ==
    Set(Handled(route, who, own, status),
        [eventId    |-> eventId,
         registered |-> {r.studentEmail :
                            r \in {x \in registrations : x.eventId = eventId}}])

Succeeded(req) == req # NoDecision /\ req.status \in {"200", "302"}

\* POST /register
PostRegister ==
    \E who \in ServerRequesters, email \in Emails, eventId \in EventIds,
       emailFails \in BOOLEAN :
        LET got == getEventById(events, cache, eventId) IN
        /\ IF ~got.out.ok
           THEN \* getEventById throws
                /\ lastReq' = Handled("register", who, NoOwnership, "500")
                /\ UNCHANGED <<events, nextOid, registrations, feedback, sent, cache>>
           ELSE IF got.out.value.date < Today
           THEN \* Cannot register for past events
                /\ lastReq' = Handled("register", who, NoOwnership, "400")
                /\ cache' = got.cache
                /\ UNCHANGED <<events, nextOid, registrations, feedback, sent>>
           ELSE IF \E r \in registrations :
                      r.eventId = eventId /\ r.studentEmail = email
           THEN \* You have already registered for this event
                /\ lastReq' = Handled("register", who, NoOwnership, "400")
                /\ cache' = got.cache
                /\ UNCHANGED <<events, nextOid, registrations, feedback, sent>>
           ELSE \* registerForEvent: insert, then the confirmation email
                /\ nextOid <= MaxDocs
                /\ registrations' = registrations \cup
                       {[_id |-> ObjectId(nextOid), eventId |-> eventId,
                         studentEmail |-> email]}
                /\ nextOid' = nextOid + 1
                /\ cache' = got.cache
                /\ sent' = IF emailFails THEN sent
                           ELSE sent \cup {[to |-> email, about |-> "registration",
                                            eventId |-> eventId]}
                /\ lastReq' = Handled("register", who, NoOwnership, "302")
                /\ UNCHANGED <<events, feedback>>
        /\ UNCHANGED <<polVars, authVars, runVars, cacheVars>>

\* POST /feedback
PostFeedback ==
    \E who \in ServerRequesters, email \in Emails, eventId \in EventIds :
        /\ nextOid <= MaxDocs
        /\ feedback' = feedback \cup
               {[_id |-> ObjectId(nextOid), eventId |-> eventId,
                 studentEmail |-> email]}
        /\ nextOid' = nextOid + 1
        /\ lastReq' = Handled("feedback", who, NoOwnership, "302")
        /\ UNCHANGED <<events, registrations, sent, cache, polVars, authVars, runVars, cacheVars>>

\* POST /organizer/create-event
PostCreateEvent ==
    \E who \in ServerRequesters, title \in {"t1"}, date \in Dates,
       organizer \in Emails \cup {Undefined} :
        /\ nextOid <= MaxDocs
        /\ events' = events \cup
               {[_id       |-> ObjectId(nextOid),
                 title     |-> title,
                 date      |-> date,
                 organizer |-> IF organizer # Undefined
                               THEN organizer ELSE "guest@example.com",
                 createdBy |-> "guest@example.com"]}
        /\ nextOid' = nextOid + 1
        /\ cache' = cacheFlush
        /\ lastReq' = Handled("createEvent", who, NoOwnership, "302")
        /\ UNCHANGED <<registrations, feedback, sent, polVars, authVars, runVars, cacheVars>>

\* POST /organizer/update-event/:eventId
PostUpdateEvent ==
    \E who \in ServerRequesters, eventId \in EventIds, title \in Titles,
       date \in Dates :
        LET matched == IF isValid(eventId)
                       THEN {e \in events : e._id = fromHex(eventId)} ELSE {}
        IN
        /\ IF matched = {}
           THEN \* Invalid event ID, or Event not found
                /\ lastReq' = HandledEvent("updateEvent", who, OwnershipOf(eventId), "500", eventId)
                /\ UNCHANGED <<events, cache>>
           ELSE /\ events' = (events \ matched) \cup
                       {Set(e, [title |-> title, date |-> date]) : e \in matched}
                /\ cache' = cacheFlush
                /\ lastReq' = HandledEvent("updateEvent", who, OwnershipOf(eventId), "302", eventId)
        /\ UNCHANGED <<nextOid, registrations, feedback, sent, polVars, authVars, runVars, cacheVars>>

\* POST /organizer/delete-event/:eventId
PostDeleteEvent ==
    \E who \in ServerRequesters, eventId \in EventIds :
        LET matched == IF isValid(eventId)
                       THEN {e \in events : e._id = fromHex(eventId)} ELSE {}
        IN
        /\ IF matched = {}
           THEN \* Invalid event ID, or Event not found
                /\ lastReq' = HandledEvent("deleteEvent", who, OwnershipOf(eventId), "500", eventId)
                /\ UNCHANGED <<events, registrations, feedback, cache>>
           ELSE /\ events' = events \ matched
                /\ cache' = cacheFlush
                /\ registrations' = {r \in registrations : r.eventId # eventId}
                /\ feedback' = {f \in feedback : f.eventId # eventId}
                /\ lastReq' = HandledEvent("deleteEvent", who, OwnershipOf(eventId), "302", eventId)
        /\ UNCHANGED <<nextOid, sent, polVars, authVars, runVars, cacheVars>>

\* GET /student/registrations/export
GetExportRegistrations ==
    \E who \in ServerRequesters :
        /\ lastReq' = Handled("exportRegistrations", who, NoOwnership, "200")
        /\ UNCHANGED <<events, nextOid, registrations, feedback, sent, cache,
                       polVars, authVars, runVars, cacheVars>>

ServerInit ==
    /\ requester = GuestUser
    /\ requiredRoles = {}
    /\ ownership = NoOwnership
    /\ decision = NoDecision
    /\ AuthInit
    /\ SrvInit
    /\ RunInit
    /\ CacheInit

ServerNext ==
    \/ PostRegister
    \/ PostFeedback
    \/ PostCreateEvent
    \/ PostUpdateEvent
    \/ PostDeleteEvent
    \/ GetExportRegistrations

SpecServer == ServerInit /\ [][ServerNext]_vars

-----------------------------------------------------------------------------
(* The action routes: claims C6 and C7, checked under SpecServer *)

\* C6: when the access decision on a request is a denial, handling the request
\* changes no event, registration or feedback and sends no email.
C6_DenyChangesNothing ==
    [][(lastReq' # NoDecision /\ Denied(lastReq'.decision)) =>
          UNCHANGED <<events, registrations, feedback, sent>>]_vars

\* C7: an action route succeeds only for the roles the route permissions matrix
\* gives it: register, feedback and the export for student; create, update and
\* delete for organizer or admin; none for a guest.
C7_MatrixEnforced ==
    Succeeded(lastReq) => Get(lastReq.who, "role") \in RouteRoles[lastReq.route]

-----------------------------------------------------------------------------
(* The read paths of the user service *)

\* what register returns for the user it stored
registerResult(user) == userWithoutPassword(user)

\* getUserById(userId)
getUserById(userId) ==
    IF ~isValid(userId) THEN AppError("Invalid user ID", "400")
    ELSE IF ~\E u \in users : u._id = fromHex(userId)
    THEN AppError("User not found", "404")
    ELSE Ok(userWithoutPassword(CHOOSE u \in users : u._id = fromHex(userId)))

\* getUserByEmail(email)
getUserByEmail(email) ==
    IF ~HasEmail(email) THEN AppError("User not found", "404")
    ELSE Ok(userWithoutPassword(findByEmail(email)))

\* getAllUsers(filters): filters.role, when given, selects the users of that role
getAllUsers(filters) ==
    {userWithoutPassword(u) :
        u \in {v \in users : Get(filters, "role") \in {Undefined, v.role}}}

UserFilters == {<<>>} \cup {[role |-> r] : r \in Roles}

-----------------------------------------------------------------------------
(* Revocation, the read paths and the studentId: claims C11, C13 and C15,
   checked under SpecAuth *)

\* the stored user the session was opened for, if it is still stored
SessionUsers == {u \in users : u._id = session.user._id}

\* C11: there is no revocation. Whatever updateUser and deleteUser have since done
\* to the user, verifying the token of the session at any time before it expires
\* succeeds with the email and role the token was issued with.
C11_NoRevocation ==
    session # NoSession =>
        \A t \in now..(ExpiresAt - 1) :
            LET v == verifyToken(session.token, t) IN
            /\ v.ok
            /\ v.decoded.email = session.user.email
            /\ v.decoded.role = session.user.role

\* the user of the session has been deleted, or has another role by now, and a
\* request with the token has gone through before the token expired
C11_Witness ==
    /\ session # NoSession
    /\ now < ExpiresAt
    /\ \/ SessionUsers = {}
       \/ \E u \in SessionUsers : u.role # session.user.role
    /\ authOut # NoDecision
    /\ authOut.at = now
    /\ authOut.result = Pass(session.token.payload)

\* C13: no result of register, login, getUserById, getUserByEmail or getAllUsers
\* has a password field.
C13_NoPasswordReturned ==
    /\ \A u \in users : "password" \notin DOMAIN registerResult(u)
    /\ session # NoSession => "password" \notin DOMAIN session.user
    /\ \A id \in UserIds :
          getUserById(id).ok => "password" \notin DOMAIN getUserById(id).value
    /\ \A e \in Emails :
          getUserByEmail(e).ok => "password" \notin DOMAIN getUserByEmail(e).value
    /\ \A f \in UserFilters : \A r \in getAllUsers(f) : "password" \notin DOMAIN r

\* a user is stored with its password hash, login has returned it, and each read
\* path returns it
C13_Witness ==
    /\ session # NoSession
    /\ \E u \in users :
          /\ "password" \in DOMAIN u
          /\ u._id = session.user._id
          /\ getUserById(toJSON(u._id)).ok
          /\ getUserByEmail(u.email).ok
          /\ getAllUsers([role |-> u.role]) # {}

\* C15: every stored user has a studentId if and only if its role is student.
C15_StudentIdIffStudent ==
    \A u \in users : (u.studentId # Null) <=> (u.role = "student")

-----------------------------------------------------------------------------
(* SpecOwner: a client that logs in and sends its create-event and update-event
   requests through the access-control chain (authenticateToken,
   requireRole(roles), the ownership check in the handler), while the user
   service changes its identity *)

\* the client creates at most MaxOwned events
MaxOwned == 1

\* the event a handler loads for the ownership check, or NoOwnership
LoadEvent(eventId) ==
    IF isValid(eventId) /\ \E e \in events : e._id = fromHex(eventId)
    THEN CHOOSE e \in events : e._id = fromHex(eventId)
    ELSE NoOwnership

\* POST /organizer/create-event with the token of the session; the form sends the
\* email of the logged-in user as organizer
CreateOwn ==
    /\ session # NoSession
    /\ nextOid <= MaxOwned
    /\ LET a == authenticateTokenRBAC(Bearer(session.token), now)
           d == evaluate(a.user, RouteRoles.createEvent, NoOwnership)
       IN
       /\ requester' = a.user
       /\ requiredRoles' = RouteRoles.createEvent
       /\ ownership' = NoOwnership
       /\ decision' = d
       /\ IF Allowed(d)
          THEN /\ events' = events \cup
                      {[_id       |-> ObjectId(nextOid),
                        title     |-> "t1",
                        date      |-> Today,
                        organizer |-> a.user.email,
                        createdBy |-> "guest@example.com"]}
               /\ nextOid' = nextOid + 1
               /\ cache' = cacheFlush
               /\ lastReq' = [route   |-> "createEvent",
                              who     |-> a.user,
                              decision |-> d,
                              status  |-> "302",
                              created |-> ObjectId(nextOid)]
          ELSE UNCHANGED <<events, nextOid, cache, lastReq>>
    /\ UNCHANGED <<registrations, feedback, sent, authVars, runVars, cacheVars>>

\* POST /organizer/update-event/:eventId with the token of the session
EditOwn ==
    /\ session # NoSession
    /\ \E eventId \in EventIds :
        LET a     == authenticateTokenRBAC(Bearer(session.token), now)
            event == LoadEvent(eventId)
            d     == evaluate(a.user, RouteRoles.updateEvent, event)
        IN
        /\ event # NoOwnership
        /\ requester' = a.user
        /\ requiredRoles' = RouteRoles.updateEvent
        /\ ownership' = event
        /\ decision' = d
        /\ IF Allowed(d)
           THEN /\ events' = (events \ {event}) \cup {Set(event, [title |-> "t2"])}
                /\ cache' = cacheFlush
           ELSE UNCHANGED <<events, cache>>
    /\ UNCHANGED <<nextOid, registrations, feedback, sent, lastReq, authVars, runVars, cacheVars>>

OwnerNext ==
    \/ register
    \/ login
    \/ updateUser
    \/ CreateOwn
    \/ EditOwn

SpecOwner == ServerInit /\ [][OwnerNext]_vars

-----------------------------------------------------------------------------
(* Ownership by email: claim C12, checked under SpecOwner *)

\* the event of the request is the one whose creation lastReq records, the
\* requester has the id that created it, and another email than it had then
SameIdentityNewEmail ==
    /\ decision # NoDecision
    /\ ownership # NoOwnership
    /\ "created" \in DOMAIN lastReq
    /\ lastReq.created = ownership._id
    /\ lastReq.who.id = requester.id
    /\ lastReq.who.email # requester.email

-----------------------------------------------------------------------------
(* SpecUsersRace: concurrent callers of the user service. register is two
   database operations, findOne and insertOne, and other calls run between them;
   updateUser and deleteUser are one operation each. *)

\* what a finished call leaves with its caller
Done(op, status) == [op |-> op, pc |-> "done", status |-> status]

CanStart(p) == calls[p].pc \in {"idle", "done"}

\* the calls that have passed findOne and not yet run insertOne
PendingInserts == {p \in Procs : calls[p].pc = "insert"}

\* insertOne(user) without the index on email
insertUser_noIndex(us, user) ==
    [ok |-> TRUE, users |-> us \cup {user}]

\* insertOne(user) on a collection with the unique index { email: 1 }: the
\* duplicate key error when a stored user has the email
insertUser(us, user) ==
    IF \E o \in us : o.email = user.email
    THEN [ok |-> FALSE, users |-> us]
    ELSE [ok |-> TRUE, users |-> us \cup {user}]

\* register, up to findOne({ email }): 409 when the email is taken
registerFind(p) ==
    \E email \in Emails, role \in {"student", "organizer"} :
        /\ CanStart(p)
        /\ nextId + Cardinality(PendingInserts) <= MaxUsers
        /\ IF HasEmail(email)
           THEN calls' = [calls EXCEPT ![p] = Done("register", "409")]
           ELSE calls' = [calls EXCEPT ![p] =
                    [op |-> "register", pc |-> "insert",
                     userData |-> [name |-> "name", email |-> email,
                                   password |-> "pw1", role |-> role,
                                   studentId |-> "S1"]]]
        /\ UNCHANGED <<polVars, authVars, srvVars, cacheVars>>

\* register, from bcrypt.hash to the return: insertOne, and the DatabaseError
\* (500) when it throws
registerInsert(p) ==
    /\ calls[p].pc = "insert"
    /\ LET userData == calls[p].userData
           user == [_id       |-> ObjectId(nextId),
                    name      |-> userData.name,
                    email     |-> userData.email,
                    password  |-> bcrypt_hash(userData.password),
                    role      |-> IF userData.role # Undefined
                                  THEN userData.role ELSE "student",
                    studentId |-> IF userData.role = "student"
                                  THEN userData.studentId ELSE Null]
           ins == insertUser(users, user)
       IN
       /\ users' = ins.users
       /\ nextId' = IF ins.ok THEN nextId + 1 ELSE nextId
       /\ calls' = [calls EXCEPT ![p] =
                       Done("register", IF ins.ok THEN "201" ELSE "500")]
    /\ UNCHANGED <<now, session, authHeader, authOut, polVars, srvVars, cacheVars>>

UsersRaceNext ==
    \/ \E p \in Procs : registerFind(p)
    \/ \E p \in Procs : registerInsert(p)
    \/ updateUser
    \/ deleteUser

SpecUsersRace == ServerInit /\ [][UsersRaceNext]_vars

-----------------------------------------------------------------------------
(* Unique emails: claim C14, checked under SpecUsersRace *)

-----------------------------------------------------------------------------
(* SpecEventsRace: concurrent requests to POST /register, POST /feedback and
   POST /organizer/delete-event/:eventId. Each await of a handler is a step; the
   requests of the other callers run between the steps. *)

\* the racing requests insert documents up to the ObjectId MaxRaceOid
MaxRaceOid == 3

\* an upcoming event is stored when the requests arrive
RaceEvent ==
    [_id       |-> ObjectId(1),
     title     |-> "t1",
     date      |-> Today,
     organizer |-> "a@x.com",
     createdBy |-> "guest@example.com"]

EventsRaceInit ==
    /\ requester = GuestUser
    /\ requiredRoles = {}
    /\ ownership = NoOwnership
    /\ decision = NoDecision
    /\ AuthInit
    /\ events = {RaceEvent}
    /\ nextOid = 2
    /\ registrations = {}
    /\ feedback = {}
    /\ sent = {}
    /\ cache = <<>>
    /\ lastReq = NoDecision
    /\ RunInit
    /\ CacheInit

\* the requests that will still insert a document
PendingDocs == {p \in Procs : calls[p].pc \in {"find", "insert"}}

\* the confirmation email of registerForEvent with the try/catch around it left
\* out: a failure to load the event or to send fails the call
confirmationOutcome_propagates(loaded, sendFails) ==
    [status |-> IF ~loaded.ok \/ sendFails THEN "500" ELSE "302",
     mail   |-> IF ~loaded.ok THEN "loadFailed"
                ELSE IF sendFails THEN "sendFailed" ELSE "sent"]

\* the confirmation email of registerForEvent: getEventById and
\* sendRegistrationConfirmation in a try/catch that logs; then the return, and
\* the redirect of the route
confirmationOutcome(loaded, sendFails) ==
    [status |-> "302",
     mail   |-> IF ~loaded.ok THEN "loadFailed"
                ELSE IF sendFails THEN "sendFailed" ELSE "sent"]

\* POST /register, up to the check of the event's date
regLoad(p) ==
    \E email \in Emails, eventId \in EventIds :
        LET got == getEventById(events, cache, eventId) IN
        /\ CanStart(p)
        /\ nextOid + Cardinality(PendingDocs) <= MaxRaceOid
        /\ cache' = got.cache
        /\ calls' = [calls EXCEPT ![p] =
               IF ~got.out.ok THEN Done("register", "500")
               ELSE IF got.out.value.date < Today THEN Done("register", "400")
               ELSE [op |-> "register", pc |-> "find",
                     eventId |-> eventId, studentEmail |-> email]]
        /\ UNCHANGED <<events, nextOid, registrations, feedback, sent, lastReq,
                       polVars, authVars, cacheVars>>

\* registerForEvent: findOne({ eventId, studentEmail }), 400 when there is one
regFind(p) ==
    /\ calls[p].pc = "find"
    /\ calls' = [calls EXCEPT ![p] =
           IF \E r \in registrations : /\ r.eventId = calls[p].eventId
                                       /\ r.studentEmail = calls[p].studentEmail
           THEN Done("register", "400")
           ELSE [calls[p] EXCEPT !.pc = "insert"]]
    /\ UNCHANGED <<polVars, authVars, srvVars, cacheVars>>

\* registerForEvent: insertOne(registration)
regInsert(p) ==
    /\ calls[p].pc = "insert"
    /\ registrations' = registrations \cup
           {[_id |-> ObjectId(nextOid), eventId |-> calls[p].eventId,
             studentEmail |-> calls[p].studentEmail]}
    /\ nextOid' = nextOid + 1
    /\ calls' = [calls EXCEPT ![p] =
           [op |-> "register", pc |-> "email", eventId |-> calls[p].eventId,
            studentEmail |-> calls[p].studentEmail, inserted |-> ObjectId(nextOid)]]
    /\ UNCHANGED <<events, feedback, sent, cache, lastReq, polVars, authVars, cacheVars>>

\* registerForEvent: the confirmation email, and the answer of the route
regEmail(p) ==
    \E sendFails \in BOOLEAN :
        LET got == getEventById(events, cache, calls[p].eventId)
            out == confirmationOutcome(got.out, sendFails)
        IN
        /\ calls[p].pc = "email"
        /\ cache' = got.cache
        /\ sent' = IF out.mail = "sent"
                   THEN sent \cup {[to |-> calls[p].studentEmail,
                                    about |-> "registration",
                                    eventId |-> calls[p].eventId]}
                   ELSE sent
        /\ calls' = [calls EXCEPT ![p] =
               [op |-> "register", pc |-> "done", status |-> out.status,
                mail |-> out.mail, inserted |-> calls[p].inserted]]
        /\ UNCHANGED <<events, nextOid, registrations, feedback, lastReq,
                       polVars, authVars, cacheVars>>

\* POST /feedback: submitFeedback is one insertOne
fbSubmit(p) ==
    \E email \in Emails, eventId \in EventIds :
        /\ CanStart(p)
        /\ nextOid + Cardinality(PendingDocs) <= MaxRaceOid
        /\ feedback' = feedback \cup
               {[_id |-> ObjectId(nextOid), eventId |-> eventId,
                 studentEmail |-> email]}
        /\ nextOid' = nextOid + 1
        /\ calls' = [calls EXCEPT ![p] = Done("feedback", "302")]
        /\ UNCHANGED <<events, registrations, sent, cache, lastReq,
                       polVars, authVars, cacheVars>>

\* POST /organizer/delete-event/:eventId: eventService.deleteEvent
delEvent(p) ==
    \E eventId \in EventIds :
        LET matched == IF isValid(eventId)
                       THEN {e \in events : e._id = fromHex(eventId)} ELSE {}
        IN
        /\ CanStart(p)
        /\ IF matched = {}
           THEN /\ calls' = [calls EXCEPT ![p] = Done("deleteEvent", "500")]
                /\ UNCHANGED <<events, cache>>
           ELSE /\ events' = events \ matched
                /\ cache' = cacheFlush
                /\ calls' = [calls EXCEPT ![p] =
                       [op |-> "deleteEvent", pc |-> "delRegs", eventId |-> eventId]]
        /\ UNCHANGED <<nextOid, registrations, feedback, sent, lastReq,
                       polVars, authVars, cacheVars>>

\* delete-event: registrations.deleteMany({ eventId })
delRegs(p) ==
    /\ calls[p].pc = "delRegs"
    /\ registrations' = {r \in registrations : r.eventId # calls[p].eventId}
    /\ calls' = [calls EXCEPT ![p] = [calls[p] EXCEPT !.pc = "delFeedback"]]
    /\ UNCHANGED <<events, nextOid, feedback, sent, cache, lastReq,
                   polVars, authVars, cacheVars>>

\* delete-event: feedback.deleteMany({ eventId }), and the redirect
delFeedback(p) ==
    /\ calls[p].pc = "delFeedback"
    /\ feedback' = {f \in feedback : f.eventId # calls[p].eventId}
    /\ calls' = [calls EXCEPT ![p] =
           [op |-> "deleteEvent", pc |-> "done", status |-> "302",
            eventId |-> calls[p].eventId]]
    /\ UNCHANGED <<events, nextOid, registrations, sent, cache, lastReq,
                   polVars, authVars, cacheVars>>

EventsRaceNext ==
    \/ \E p \in Procs : regLoad(p)
    \/ \E p \in Procs : regFind(p)
    \/ \E p \in Procs : regInsert(p)
    \/ \E p \in Procs : regEmail(p)
    \/ \E p \in Procs : fbSubmit(p)
    \/ \E p \in Procs : delEvent(p)
    \/ \E p \in Procs : delRegs(p)
    \/ \E p \in Procs : delFeedback(p)

SpecEventsRace == EventsRaceInit /\ [][EventsRaceNext]_vars

-----------------------------------------------------------------------------
(* Registrations under concurrency: claims C16, C17 and C18, checked under
   SpecEventsRace *)

\* C16: the registrations collection holds at most one registration for an event
\* and a student email.
C16_OneRegistration ==
    \A r1, r2 \in registrations :
        (r1.eventId = r2.eventId /\ r1.studentEmail = r2.studentEmail) => r1 = r2

\* C17: the confirmation email cannot fail registerForEvent: whether the event
\* cannot be loaded for it or the sending fails, the step ends with the success
\* answer and leaves the registrations as they are.
C17_EmailFailureIsolated ==
    [][\A p \in Procs :
          (calls[p].pc = "email" /\ calls'[p].pc = "done") =>
              /\ calls'[p].status = "302"
              /\ registrations' = registrations]_vars

\* a registration has succeeded although the event, deleted in between, could not
\* be loaded for the email; the registration is stored
C17_Witness ==
    \E p \in Procs :
        /\ calls[p].op = "register"
        /\ calls[p].pc = "done"
        /\ calls[p].status = "302"
        /\ calls[p].mail = "loadFailed"
        /\ \E r \in registrations : r._id = calls[p].inserted

\* no registration and no feedback refers to the event
NoRecordsFor(eventId) ==
    /\ \A r \in registrations : r.eventId # eventId
    /\ \A f \in feedback : f.eventId # eventId

\* C18: when a delete-event request completes with success, the event is gone and
\* no registration or feedback of the event is stored.
C18_DeleteLeavesNoRecords ==
    [][\A p \in Procs :
          (calls[p].pc = "delFeedback" /\ calls'[p].pc = "done") =>
              /\ \A e \in events' : toJSON(e._id) # calls[p].eventId
              /\ NoRecordsFor(calls[p].eventId)']_vars

-----------------------------------------------------------------------------
(* FairNotify: registrations, updates and deletions on a store that holds an
   upcoming event, on a server that goes on handling requests *)

NotifyNext ==
    \/ PostRegister
    \/ PostUpdateEvent
    \/ PostDeleteEvent

SpecNotify == EventsRaceInit /\ [][NotifyNext]_vars
FairNotify == SpecNotify /\ WF_vars(NotifyNext)

-----------------------------------------------------------------------------
(* Notifications: claim C19, checked under FairNotify *)

\* the email sendEventUpdateNotification sends a student: updateType 'updated' or
\* 'deleted'
UpdateTypes == {"updated", "deleted"}

Notified(email, eventId) ==
    \E m \in sent : m.to = email /\ m.eventId = eventId /\ m.about \in UpdateTypes

\* C19: once an event has been updated or deleted, each student who was registered
\* for it is eventually sent the update or the cancellation notification.
C19_RegisteredAreNotified ==
    \A email \in Emails, eventId \in EventIds :
        (/\ Succeeded(lastReq)
         /\ lastReq.route \in {"updateEvent", "deleteEvent"}
         /\ lastReq.eventId = eventId
         /\ email \in lastReq.registered) ~> Notified(email, eventId)

-----------------------------------------------------------------------------
(* SpecViews: the view routes of the server, over every Authorization header
   and every time of the clock *)

ViewRoutes ==
    {"/", "/dashboard", "/events", "/register/:eventId", "/feedback/:eventId",
     "/organizer", "/organizer/my-events", "/admin", "/student/registrations",
     "/profile"}

\* the roles the route permissions matrix lists for each view route
ViewRoles(route) ==
    CASE route \in {"/organizer", "/organizer/my-events"} ->
             {"guest", "organizer", "admin"}
      [] route = "/admin"                 -> {"guest", "admin"}
      [] route = "/student/registrations" -> {"guest", "student"}
      [] OTHER                            -> AllRoles

\* the view routes whose handler queries the database, and answers 500 when the
\* query throws
QueryingRoutes ==
    {"/", "/dashboard", "/events", "/organizer/my-events", "/admin",
     "/student/registrations"}

\* res.render(view, { user: { role: 'guest' } })
Render(status) == [next |-> FALSE, status |-> status, kind |-> "render", user |-> GuestUser]

\* the view routes behind isAuthenticated and requireRole with the roles of the
\* matrix
viewRoute_matrix(route, header, clock, queryFails) ==
    LET a == isAuthenticated(header, clock)
        g == requireRole(ViewRoles(route), a.user)
    IN
    IF ~g.next THEN g
    ELSE IF route \in QueryingRoutes /\ queryFails THEN Render("500")
    ELSE Render("200")

\* app.get(route, handler): no middleware reads the header; the handler renders
\* the page for { role: 'guest' }
viewRoute(route, header, clock, queryFails) ==
    IF route \in QueryingRoutes /\ queryFails THEN Render("500")
    ELSE Render("200")

\* a view request arrives with the header of the state
View ==
    /\ lastReq = NoDecision
    /\ \E route \in ViewRoutes, queryFails \in BOOLEAN :
           lastReq' = [route    |-> route,
                       cause    |-> Cause(TokenOf(authHeader), now),
                       response |-> viewRoute(route, authHeader, now, queryFails)]
    /\ UNCHANGED <<events, nextOid, registrations, feedback, sent, cache,
                   polVars, authVars, runVars, cacheVars>>

ViewsNext == View

SpecViews == MiddlewareInit /\ [][ViewsNext]_vars

-----------------------------------------------------------------------------
(* View routes: claim C20, checked under SpecViews *)

\* C20: no view route is answered with 401 or 403, whoever asks: without a token,
\* with a token that does not verify, or with a valid token of any role.
C20_ViewsNeverDenied ==
    lastReq # NoDecision => lastReq.response.status \notin {"401", "403"}

\* a student with a valid token has been shown /organizer, a page whose matrix
\* entry does not list student
C20_Witness ==
    /\ lastReq # NoDecision
    /\ lastReq.route = "/organizer"
    /\ lastReq.cause = "valid"
    /\ TokenOf(authHeader).payload.role = "student"
    /\ "student" \notin ViewRoles(lastReq.route)
    /\ lastReq.response.status = "200"

-----------------------------------------------------------------------------
(* Duplicate registration: claim C26, checked under SpecUsersRace *)

\* C26: a register call that fails because its email belongs to a stored user
\* fails with the 409 'User with this email already exists', however the calls
\* interleave.
C26_DuplicateIs409 ==
    \A p \in Procs :
        (calls[p].op = "register" /\ calls[p].pc = "done"
            /\ calls[p].status # "201") => calls[p].status = "409"

-----------------------------------------------------------------------------
(* Login failures: claim C27, checked under SpecAuth *)

InvalidCredentials == AppError("Invalid credentials", "401")

\* C27: login returns a token exactly when the email is stored and the password
\* matches; every other attempt, for an unknown email as for a wrong password,
\* ends in the same 401 'Invalid credentials' without a token.
C27_LoginRevealsNothing ==
    \A email \in Emails, password \in Passwords :
        LET out == loginOutcome(email, password, now) IN
        /\ out.ok <=> (/\ HasEmail(email)
                       /\ bcrypt_compare(password, findByEmail(email).password))
        /\ out.ok => out.value.token = loginToken(findByEmail(email), now)
        /\ ~out.ok => out = InvalidCredentials

\* one email is stored and the other is not; a login has succeeded, and a wrong
\* password for the stored email fails as the unknown email does
C27_Witness ==
    /\ session # NoSession
    /\ \E known, unknown \in Emails, password \in Passwords :
          /\ HasEmail(known)
          /\ ~HasEmail(unknown)
          /\ ~bcrypt_compare(password, findByEmail(known).password)
          /\ ~loginOutcome(known, password, now).ok
          /\ loginOutcome(known, password, now) = loginOutcome(unknown, password, now)

-----------------------------------------------------------------------------
(* SpecEvents: the event service, called directly *)

\* the event with the fields of eventData set
EventUpdates == [title : Titles, date : Dates]

\* updateEvent with the cache cleared before the result of updateOne is looked at
updateEvent_flushFirst(evs, c, eventId, eventData) ==
    IF ~isValid(eventId)
    THEN [out |-> AppError("Invalid event ID", "400"), events |-> evs, cache |-> c]
    ELSE LET matched == {e \in evs : e._id = fromHex(eventId)} IN
         IF matched = {}
         THEN [out    |-> AppError("Event not found", "404"),
               events |-> evs,
               cache  |-> cacheFlush]
         ELSE [out    |-> Ok([matchedCount |-> 1]),
               events |-> (evs \ matched) \cup {Set(e, eventData) : e \in matched},
               cache  |-> cacheFlush]

\* updateEvent(eventId, eventData): updateOne, then cache.del and cache.flush
updateEvent(evs, c, eventId, eventData) ==
    IF ~isValid(eventId)
    THEN [out |-> AppError("Invalid event ID", "400"), events |-> evs, cache |-> c]
    ELSE LET matched == {e \in evs : e._id = fromHex(eventId)} IN
         IF matched = {}
         THEN [out |-> AppError("Event not found", "404"), events |-> evs, cache |-> c]
         ELSE [out    |-> Ok([matchedCount |-> 1]),
               events |-> (evs \ matched) \cup {Set(e, eventData) : e \in matched},
               cache  |-> cacheFlush]

\* deleteEvent(eventId): deleteOne, then cache.del and cache.flush
deleteEvent(evs, c, eventId) ==
    IF ~isValid(eventId)
    THEN [out |-> AppError("Invalid event ID", "400"), events |-> evs, cache |-> c]
    ELSE LET matched == {e \in evs : e._id = fromHex(eventId)} IN
         IF matched = {}
         THEN [out |-> AppError("Event not found", "404"), events |-> evs, cache |-> c]
         ELSE [out    |-> Ok([deletedCount |-> 1]),
               events |-> evs \ matched,
               cache  |-> cacheFlush]

\* the call the service handled last, and what it returned or threw
Called(op, eventId, out) == [op |-> op, eventId |-> eventId, out |-> out]

\* createEvent(eventData)
CallCreateEvent ==
    \E title \in Titles, date \in Dates :
        LET event == [_id       |-> ObjectId(nextOid),
                      title     |-> title,
                      date      |-> date,
                      organizer |-> "a@x.com",
                      createdBy |-> "guest@example.com"]
        IN
        /\ nextOid <= MaxDocs
        /\ events' = events \cup {event}
        /\ nextOid' = nextOid + 1
        /\ cache' = cacheFlush
        /\ lastReq' = Called("createEvent", toJSON(event._id), Ok(event))
        /\ UNCHANGED <<registrations, feedback, sent, polVars, authVars, runVars, cacheVars>>

\* getEventById(eventId)
CallGetEventById ==
    \E eventId \in EventIds :
        LET r == getEventById(events, cache, eventId) IN
        /\ cache' = r.cache
        /\ lastReq' = Called("getEventById", eventId, r.out)
        /\ UNCHANGED <<events, nextOid, registrations, feedback, sent,
                       polVars, authVars, runVars, cacheVars>>

\* updateEvent(eventId, eventData)
CallUpdateEvent ==
    \E eventId \in EventIds, eventData \in EventUpdates :
        LET r == updateEvent(events, cache, eventId, eventData) IN
        /\ events' = r.events
        /\ cache' = r.cache
        /\ lastReq' = Called("updateEvent", eventId, r.out)
        /\ UNCHANGED <<nextOid, registrations, feedback, sent,
                       polVars, authVars, runVars, cacheVars>>

\* deleteEvent(eventId)
CallDeleteEvent ==
    \E eventId \in EventIds :
        LET r == deleteEvent(events, cache, eventId) IN
        /\ events' = r.events
        /\ cache' = r.cache
        /\ lastReq' = Called("deleteEvent", eventId, r.out)
        /\ UNCHANGED <<nextOid, registrations, feedback, sent,
                       polVars, authVars, runVars, cacheVars>>

EventsNext ==
    \/ CallCreateEvent
    \/ CallGetEventById
    \/ CallUpdateEvent
    \/ CallDeleteEvent

SpecEvents == ServerInit /\ [][EventsNext]_vars

-----------------------------------------------------------------------------
(* Invalid and unknown ids: claim C28, checked under SpecEvents *)

InvalidEventId == AppError("Invalid event ID", "400")
EventNotFound  == AppError("Event not found", "404")

\* the three calls on an id all end in the error, and leave the events and the
\* cache as they are
AllFailWith(eventId, error) ==
    LET g == getEventById(events, cache, eventId) IN
    /\ g.out = error /\ g.cache = cache
    /\ \A eventData \in EventUpdates :
          LET u == updateEvent(events, cache, eventId, eventData) IN
          u.out = error /\ u.events = events /\ u.cache = cache
    /\ LET d == deleteEvent(events, cache, eventId) IN
       d.out = error /\ d.events = events /\ d.cache = cache

\* C28: getEventById, updateEvent and deleteEvent throw the 400 'Invalid event ID'
\* for an id that is no ObjectId and the 404 'Event not found' for an ObjectId
\* that no event has, and change neither the events nor the cache.
C28_InvalidOrMissingId ==
    \A eventId \in EventIds :
        /\ ~isValid(eventId) => AllFailWith(eventId, InvalidEventId)
        /\ (isValid(eventId) /\ \A e \in events : e._id # fromHex(eventId)) =>
              AllFailWith(eventId, EventNotFound)

\* an update or a delete has failed on an id that is no ObjectId or that no event
\* has, while an event is stored and cached
C28_Witness ==
    /\ lastReq # NoDecision
    /\ lastReq.op \in {"updateEvent", "deleteEvent"}
    /\ lastReq.out \in {InvalidEventId, EventNotFound}
    /\ events # {}
    /\ cache # <<>>

-----------------------------------------------------------------------------
(* SpecReadRace: getEventById calls that run while the events change. A read is
   two steps: the cache lookup with the query on a miss, and the cache.set of
   what the query returned. *)

\* getEventById, up to the result of findOne
getLook(p) ==
    \E eventId \in EventIds :
        LET hit   == IF isValid(eventId)
                     THEN cacheGet(cache, eventKey(eventId)) ELSE NoValue
            found == IF isValid(eventId)
                     THEN {e \in events : e._id = fromHex(eventId)} ELSE {}
        IN
        /\ CanStart(p)
        /\ calls' = [calls EXCEPT ![p] =
               IF ~isValid(eventId)
               THEN [op |-> "getEventById", pc |-> "done", out |-> InvalidEventId]
               ELSE IF hit # NoValue
               THEN [op |-> "getEventById", pc |-> "done", out |-> Ok(hit)]
               ELSE IF found = {}
               THEN [op |-> "getEventById", pc |-> "done", out |-> EventNotFound]
               ELSE [op |-> "getEventById", pc |-> "fill", eventId |-> eventId,
                     event |-> CHOOSE e \in found : TRUE]]
        /\ UNCHANGED <<polVars, authVars, srvVars, cacheVars>>

\* getEventById: cache.set(cacheKey, event, 3600) and the return
getFill(p) ==
    /\ calls[p].pc = "fill"
    /\ cache' = cacheSet(cache, eventKey(calls[p].eventId), calls[p].event)
    /\ calls' = [calls EXCEPT ![p] =
           [op |-> "getEventById", pc |-> "done", out |-> Ok(calls[p].event)]]
    /\ UNCHANGED <<events, nextOid, registrations, feedback, sent, lastReq,
                   polVars, authVars, cacheVars>>

ReadRaceNext ==
    \/ \E p \in Procs : getLook(p)
    \/ \E p \in Procs : getFill(p)
    \/ CallUpdateEvent
    \/ CallDeleteEvent

\* an upcoming event is stored when the calls arrive
SpecReadRace == EventsRaceInit /\ [][ReadRaceNext]_vars

-----------------------------------------------------------------------------
(* Stale reads: claim C21, checked under SpecReadRace *)

\* no read is between its query and its cache.set
NoReadInFlight == \A p \in Procs : calls[p].pc # "fill"

\* C21: once the mutations and the reads that ran beside them have returned, a
\* getEventById call returns the event as it is stored, never an earlier version
\* of it and never an event that has been deleted.
C21_NoStaleRead ==
    NoReadInFlight =>
        \A eventId \in EventIds :
            LET r == getEventById(events, cache, eventId) IN
            r.out.ok => r.out.value \in events

-----------------------------------------------------------------------------
(* SpecFaults: the delete-event route when an operation on the database throws *)

\* the operations of the route that may throw
DeleteSteps == {"deleteOne", "registrations.deleteMany", "feedback.deleteMany"}

\* POST /organizer/delete-event/:eventId, with the operation failAt throwing: the
\* operations before it have been applied, and the catch answers 500
PostDeleteEventDbError ==
    \E who \in ServerRequesters, eventId \in EventIds, failAt \in DeleteSteps :
        LET matched == IF isValid(eventId)
                       THEN {e \in events : e._id = fromHex(eventId)} ELSE {}
        IN
        \* deleteOne runs for an ObjectId; the deleteMany only once the event has
        \* been deleted
        /\ isValid(eventId)
        /\ failAt # "deleteOne" => matched # {}
        /\ lastReq' = HandledEvent("deleteEvent", who, OwnershipOf(eventId), "500",
                                   eventId)
        /\ IF failAt = "deleteOne"
           THEN UNCHANGED <<events, cache, registrations, feedback>>
           ELSE /\ events' = events \ matched
                /\ cache' = cacheFlush
                /\ registrations' =
                       IF failAt = "registrations.deleteMany" THEN registrations
                       ELSE {r \in registrations : r.eventId # eventId}
                /\ UNCHANGED feedback
        /\ UNCHANGED <<nextOid, sent, polVars, authVars, runVars, cacheVars>>

FaultsNext ==
    \/ PostRegister
    \/ PostFeedback
    \/ PostDeleteEvent
    \/ PostDeleteEventDbError

\* an upcoming event is stored when the requests arrive
SpecFaults == EventsRaceInit /\ [][FaultsNext]_vars

-----------------------------------------------------------------------------
(* Failed deletions: claim C22, checked under SpecFaults *)

\* C22: a delete-event request that is answered with an error leaves the events,
\* the registrations and the feedback as they were.
C22_FailedDeleteChangesNothing ==
    [][(/\ lastReq' # NoDecision
        /\ lastReq'.route = "deleteEvent"
        /\ lastReq'.status = "500") =>
          UNCHANGED <<events, registrations, feedback>>]_vars

-----------------------------------------------------------------------------
(* The in-memory cache: InMemoryCache and the CacheManager around it *)

CacheKeys   == {"k1", "k2"}
CacheValues == {"v1", "v2"}

\* an expiration is 1..MaxExpiration ticks of the clock
MaxExpiration == 2
Expirations == 1..MaxExpiration

\* JSON.stringify(value) and JSON.parse(string)
stringify(value) == [json |-> value]
parse(string)    == string.json

\* a function without one key, and with one key set
Without(f, key)   == [k \in (DOMAIN f) \ {key} |-> f[k]]
With(f, key, val) == [k \in (DOMAIN f) \cup {key} |-> IF k = key THEN val ELSE f[k]]

\* the timeout setTimeout returns: it fires for the key at the time at
Timeout(key, at) == [key |-> key, at |-> at]

\* the cache as one value: the two maps, the scheduled timeouts, the flag
CacheState == [cache       |-> cache,
               timers      |-> timers,
               timeouts    |-> timeouts,
               isConnected |-> isConnected]

\* InMemoryCache.set without the clearTimeout of the timer the key had
im_set_noClear(st, key, value, expiration, clock) ==
    LET timer == Timeout(key, clock + expiration) IN
    [st EXCEPT !.cache    = With(st.cache, key, value),
               !.timers   = With(st.timers, key, timer),
               !.timeouts = st.timeouts \cup {timer}]

\* InMemoryCache.set(key, value, expiration)
im_set(st, key, value, expiration, clock) ==
    LET timer   == Timeout(key, clock + expiration)
        cleared == IF key \in DOMAIN st.timers
                   THEN st.timeouts \ {st.timers[key]} ELSE st.timeouts
    IN
    [st EXCEPT !.cache    = With(st.cache, key, value),
               !.timers   = With(st.timers, key, timer),
               !.timeouts = cleared \cup {timer}]

\* InMemoryCache.get(key)
im_get(st, key) == IF key \in DOMAIN st.cache THEN st.cache[key] ELSE NoValue

\* InMemoryCache.del that leaves the timer of the key in place
im_del_keepTimer(st, key) ==
    [st EXCEPT !.cache = Without(st.cache, key)]

\* InMemoryCache.del(key)
im_del(st, key) ==
    [st EXCEPT !.cache    = Without(st.cache, key),
               !.timers   = Without(st.timers, key),
               !.timeouts = IF key \in DOMAIN st.timers
                            THEN st.timeouts \ {st.timers[key]} ELSE st.timeouts]

\* InMemoryCache.flush()
im_flush(st) ==
    [st EXCEPT !.cache = <<>>, !.timers = <<>>, !.timeouts = {}]

\* the callback of a timeout: cache.delete(key), timers.delete(key)
im_expire(st, timer) ==
    [st EXCEPT !.cache    = Without(st.cache, timer.key),
               !.timers   = Without(st.timers, timer.key),
               !.timeouts = st.timeouts \ {timer}]

\* CacheManager.disconnect that does not flush
cm_disconnect_noFlush(st) ==
    [st EXCEPT !.isConnected = FALSE]

\* CacheManager.disconnect()
cm_disconnect(st) ==
    [im_flush(st) EXCEPT !.isConnected = FALSE]

\* the cache becomes st
Becomes(st) ==
    /\ cache' = st.cache
    /\ timers' = st.timers
    /\ timeouts' = st.timeouts
    /\ isConnected' = st.isConnected

CacheFrame ==
    UNCHANGED <<events, nextOid, registrations, feedback, sent, polVars, runVars,
                users, nextId, session, authHeader, authOut>>

\* CacheManager.set(key, value, expiration)
CacheSet ==
    \E key \in CacheKeys, value \in CacheValues, expiration \in Expirations :
        /\ IF ~isConnected
           THEN /\ Becomes(CacheState)
                /\ lastReq' = [op |-> "set", key |-> key, value |-> value,
                               expiration |-> expiration, result |-> FALSE]
           ELSE /\ Becomes(im_set(CacheState, key, stringify(value), expiration, now))
                /\ lastReq' = [op |-> "set", key |-> key, value |-> value,
                               expiration |-> expiration, result |-> TRUE,
                               hadTimer |-> key \in DOMAIN timers]
        /\ UNCHANGED now
        /\ CacheFrame

\* CacheManager.get(key)
CacheGet ==
    \E key \in CacheKeys :
        LET value == im_get(CacheState, key) IN
        /\ lastReq' = [op |-> "get", key |-> key,
                       result |-> IF ~isConnected \/ value = NoValue
                                  THEN NoValue ELSE parse(value)]
        /\ Becomes(CacheState)
        /\ UNCHANGED now
        /\ CacheFrame

\* CacheManager.del(key)
CacheDel ==
    \E key \in CacheKeys :
        /\ IF ~isConnected
           THEN /\ Becomes(CacheState)
                /\ lastReq' = [op |-> "del", key |-> key, result |-> FALSE]
           ELSE /\ Becomes(im_del(CacheState, key))
                /\ lastReq' = [op |-> "del", key |-> key,
                               result |-> key \in DOMAIN cache]
        /\ UNCHANGED now
        /\ CacheFrame

\* CacheManager.flush()
CacheFlush ==
    /\ IF ~isConnected
       THEN /\ Becomes(CacheState)
            /\ lastReq' = [op |-> "flush", result |-> FALSE]
       ELSE /\ Becomes(im_flush(CacheState))
            /\ lastReq' = [op |-> "flush", result |-> TRUE]
    /\ UNCHANGED now
    /\ CacheFrame

\* CacheManager.disconnect()
CacheDisconnect ==
    /\ Becomes(cm_disconnect(CacheState))
    /\ lastReq' = [op |-> "disconnect"]
    /\ UNCHANGED now
    /\ CacheFrame

\* CacheManager.connect()
CacheConnect ==
    /\ Becomes([CacheState EXCEPT !.isConnected = TRUE])
    /\ lastReq' = [op |-> "connect"]
    /\ UNCHANGED now
    /\ CacheFrame

\* the timeouts whose time has come
Due == {t \in timeouts : t.at <= now}

\* a timeout fires
TimerFires ==
    \E timer \in Due :
        /\ Becomes(im_expire(CacheState, timer))
        /\ lastReq' = [op |-> "timeout", key |-> timer.key]
        /\ UNCHANGED now
        /\ CacheFrame

\* the clock advances once the timeouts that are due have fired
CacheTick ==
    /\ now < MaxNow
    /\ Due = {}
    /\ now' = now + 1
    /\ lastReq' = [op |-> "tick"]
    /\ Becomes(CacheState)
    /\ CacheFrame

CacheNext ==
    \/ CacheSet
    \/ CacheGet
    \/ CacheDel
    \/ CacheFlush
    \/ CacheDisconnect
    \/ CacheConnect
    \/ TimerFires
    \/ CacheTick

SpecCache == ServerInit /\ [][CacheNext]_vars

-----------------------------------------------------------------------------
(* The cache: claims C23, C24 and C25, checked under SpecCache *)

\* C23: an entry is readable from its set until its expiration has elapsed and
\* is gone after that; a set of the same key replaces the value and restarts the
\* expiration, and only the timeout of the last set evicts the entry.
C23_ExpiresWhenDue ==
    [][/\ \A k \in DOMAIN cache' :
              k \in DOMAIN timers' /\ now' <= timers'[k].at
       /\ \A k \in DOMAIN cache :
              k \notin DOMAIN cache' =>
                  \/ Get(lastReq', "op") \in {"del", "flush", "disconnect"}
                  \/ Get(lastReq', "op") = "timeout" /\ now >= timers[k].at
       /\ (Get(lastReq', "op") = "set" /\ lastReq'.result) =>
              /\ parse(cache'[lastReq'.key]) = lastReq'.value
              /\ timers'[lastReq'.key].at = now' + lastReq'.expiration
       /\ (Get(lastReq', "op") = "get" /\ isConnected
              /\ lastReq'.key \in DOMAIN cache) =>
              lastReq'.result = parse(cache[lastReq'.key])]_vars

\* a key that had a timer has been set again after the clock advanced, to a
\* value other than the one it held, and its timer is the new one
C23_Witness ==
    /\ Get(lastReq, "op") = "set"
    /\ lastReq.result
    /\ lastReq.hadTimer
    /\ now > 0
    /\ lastReq.expiration = MaxExpiration
    /\ timeouts = {Timeout(lastReq.key, now + MaxExpiration)}

\* C24: the keys with a timer are the keys with a value, and the timers are the
\* timeouts that are scheduled.
C24_TimersMatchValues ==
    /\ DOMAIN timers = DOMAIN cache
    /\ timeouts = {timers[k] : k \in DOMAIN timers}

\* a timeout has fired for one key while another key is cached
C24_Witness ==
    /\ Get(lastReq, "op") = "timeout"
    /\ lastReq.key \notin DOMAIN cache
    /\ cache # <<>>

\* C25: while the cache is disconnected it is empty, no timeout is scheduled,
\* get returns null, and set, del and flush return false.
C25_DisconnectedIsEmpty ==
    ~isConnected =>
        /\ cache = <<>>
        /\ timers = <<>>
        /\ timeouts = {}
        /\ Get(lastReq, "op") = "get" => lastReq.result = NoValue
        /\ Get(lastReq, "op") \in {"set", "del", "flush"} => lastReq.result = FALSE

\* a set has been refused after a disconnect
C25_Witness ==
    /\ ~isConnected
    /\ Get(lastReq, "op") = "set"
    /\ lastReq.result = FALSE

-----------------------------------------------------------------------------
(* The daily reminder job of server.js *)

\* the dates the job asks for: tomorrow and the day after
ReminderDates == {Today + 1, Today + 2}

\* the events the job can find stored: each id with a date of today, tomorrow
\* or the day after
ReminderEvent(n, date) ==
    [_id       |-> ObjectId(n),
     title     |-> "t1",
     date      |-> date,
     organizer |-> "a@x.com",
     createdBy |-> "guest@example.com"]

ReminderInit ==
    /\ requester = GuestUser
    /\ requiredRoles = {}
    /\ ownership = NoOwnership
    /\ decision = NoDecision
    /\ AuthInit
    /\ \E ids \in SUBSET (1..MaxDocs) :
       \E dateOf \in [ids -> Today..(Today + 2)] :
           events = {ReminderEvent(n, dateOf[n]) : n \in ids}
    /\ nextOid = MaxDocs + 1
    /\ registrations \in SUBSET
           {[_id |-> ObjectId(0), eventId |-> toJSON(ObjectId(n)), studentEmail |-> e] :
                n \in 1..MaxDocs, e \in Emails}
    /\ feedback = {}
    /\ sent = {}
    /\ cache = <<>>
    /\ lastReq = NoDecision
    /\ RunInit
    /\ CacheInit

\* events.find({date: {$in: [tomorrowStr, dayAfterTomorrowStr]}}).toArray()
upcomingEvents(evs) ==
    LET ids == {e._id.oid : e \in {x \in evs : x.date \in ReminderDates}}
        ordered == SelectSeq([n \in 1..MaxDocs |-> n], LAMBDA n : n \in ids)
    IN [i \in 1..Len(ordered) |->
            CHOOSE e \in evs : e._id.oid = ordered[i]]

\* registrations.find({eventId: event._id.toString()}).toArray()
registrationsOf(regs, event) ==
    {r \in regs : r.eventId = toJSON(event._id)}

\* the events left to the loop if an error for one event left the loop
eventCatch_outerOnly(queue) == <<>>

\* the events left to the loop after the catch inside it: the rest
eventCatch(queue) == Tail(queue)

\* the process that runs the job
Job == 1

Running(pc, queue, attempted, failed) ==
    [op |-> "reminder", pc |-> pc, queue |-> queue,
     attempted |-> attempted, failed |-> failed, listed |-> TRUE, thrown |-> FALSE]

JobFrame ==
    UNCHANGED <<events, nextOid, registrations, feedback, cache, lastReq,
                polVars, authVars, cacheVars>>

\* the job starts and queries the events; a failing query goes to the outer catch
jobFind ==
    \E findFails \in BOOLEAN :
        /\ calls[Job].pc = "idle"
        /\ calls' = [calls EXCEPT ![Job] =
               IF findFails
               THEN [op |-> "reminder", pc |-> "done", queue |-> <<>>,
                     attempted |-> {}, failed |-> {}, listed |-> FALSE,
                     thrown |-> FALSE]
               ELSE Running("loop", upcomingEvents(events), {}, {})]
        /\ UNCHANGED sent
        /\ JobFrame

\* the loop takes the next event and queries its registrations
jobRegistrations ==
    \E findFails \in BOOLEAN :
        LET c     == calls[Job]
            event == Head(c.queue)
            found == registrationsOf(registrations, event)
        IN
        /\ c.pc = "loop"
        /\ c.queue # <<>>
        /\ calls' = [calls EXCEPT ![Job] =
               IF findFails
               THEN Running("loop", eventCatch(c.queue), c.attempted,
                            c.failed \cup {event._id})
               ELSE IF found = {}
               THEN Running("loop", Tail(c.queue), c.attempted, c.failed)
               ELSE Running("send", c.queue, c.attempted, c.failed)]
        /\ UNCHANGED sent
        /\ JobFrame

\* emailService.sendEventReminder(event, registrations): one email per
\* registration, all started, Promise.all rejecting if one is rejected
jobSend ==
    LET c     == calls[Job]
        event == Head(c.queue)
        found == registrationsOf(registrations, event)
    IN
    /\ c.pc = "send"
    /\ \E rejected \in SUBSET found :
        /\ sent' = sent \cup {[to |-> r.studentEmail, about |-> "reminder",
                               eventId |-> r.eventId] : r \in found \ rejected}
        /\ calls' = [calls EXCEPT ![Job] =
               IF rejected # {}
               THEN Running("loop", eventCatch(c.queue),
                            c.attempted \cup {event._id}, c.failed \cup {event._id})
               ELSE Running("loop", Tail(c.queue),
                            c.attempted \cup {event._id}, c.failed)]
        /\ JobFrame

\* the loop has no event left: the job returns
jobReturn ==
    /\ calls[Job].pc = "loop"
    /\ calls[Job].queue = <<>>
    /\ calls' = [calls EXCEPT ![Job].pc = "done"]
    /\ UNCHANGED sent
    /\ JobFrame

ReminderNext ==
    \/ jobFind
    \/ jobRegistrations
    \/ jobSend
    \/ jobReturn

SpecReminder == ReminderInit /\ [][ReminderNext]_vars

\* the upcoming events that have a registration
Remindable ==
    {e \in events : e.date \in ReminderDates /\ registrationsOf(registrations, e) # {}}

\* C29: when the reminder job has run, it has thrown nothing, and it has
\* called sendEventReminder for every upcoming event with registrations except
\* those whose own registrations query failed, whatever failed for other events.
C29_FailureIsContained ==
    (calls[Job].op = "reminder" /\ calls[Job].pc = "done") =>
        /\ ~calls[Job].thrown
        /\ calls[Job].listed =>
               \A e \in Remindable :
                   e._id \in calls[Job].attempted \/ e._id \in calls[Job].failed

\* the job has ended after the first event's reminders failed and the second
\* event's reminders were sent
C29_Witness ==
    /\ calls[Job].op = "reminder"
    /\ calls[Job].pc = "done"
    /\ calls[Job].failed = {ObjectId(1)}
    /\ ObjectId(1) \in calls[Job].attempted
    /\ \E m \in sent : m.about = "reminder" /\ m.eventId = toJSON(ObjectId(2))

====
